---- MODULE Spec2Model ----
(***************************************************************************)
(* Backup-code two-factor provider of better-auth                          *)
(* (packages/better-auth/src/plugins/two-factor/backup-codes/index.ts).    *)
(*                                                                         *)
(* The model covers the three endpoints of backupCode2fa                   *)
(* (verifyBackupCode, generateBackupCodes, viewBackupCodes), the helpers   *)
(* they call, the twoFactor table they read and write, and the strings     *)
(* that travel between them.                                               *)
(*                                                                         *)
(* Strings.  Every string the plugin handles is a JSON text or another     *)
(* plain text, wrapped in zero or more layers of encryption.  A string is  *)
(* the record [wrap, kind, codes]:                                         *)
(*   wrap  - the layers, outermost first; a layer is the name of the key   *)
(*           of symmetricEncrypt, CustomLayer for the configured           *)
(*           storeBackupCodes.encrypt, or CorruptLayer for a ciphertext    *)
(*           whose bytes were changed;                                     *)
(*   kind  - what the innermost text is: "list" (the JSON text of an array *)
(*           of strings), "num" (a JSON text that is no array of strings)  *)
(*           or "text" (no JSON text at all);                              *)
(*   codes - the array, for kind "list".                                   *)
(* A code is a sequence of one-character strings.                          *)
(***************************************************************************)
EXTENDS Integers, Sequences, FiniteSets, TLC

\* ------------------------------------------------------------------ bounds
\* options.amount of the configurations explored.
MaxAmount == 2
\* options.length of the configurations explored.
MaxLength == 6
\* ------------------------------------------------------- program constants
\* options?.amount ?? 10
DefaultAmount == 10
\* options?.length ?? 10
DefaultLength == 10
\* code.slice(0, 5) / code.slice(5)
SplitAt == 5

Users == {"u1", "u2"}
Procs == {"p1", "p2"}

\* ctx.context.secret
Secret == "secret"
OtherKey == "otherKey"
CustomLayer == "custom"
CorruptLayer == "corrupt"

\* An optional value is the empty set (undefined) or a singleton.
Undefined == {}
Some(x) == {x}
OrElse(opt, default) == IF opt = {} THEN default ELSE CHOOSE v \in opt : TRUE

Min(a, b) == IF a < b THEN a ELSE b

\* ----------------------------------------------------------------- strings
Str(wrap, kind, codes) == [wrap |-> wrap, kind |-> kind, codes |-> codes]
NoStr == Str(<<>>, "none", <<>>)

\* The result of a call that may throw.
Ok(v) == [ok |-> TRUE, val |-> v]
Throw == [ok |-> FALSE, val |-> NoStr]

\* JSON.stringify of an array of strings.
JSONstringify(codes) == Str(<<>>, "list", codes)

\* JSON.parse: a ciphertext (hex digits) and a non-JSON text throw a
\* SyntaxError; otherwise the parsed value is the string itself, read as a
\* value of its kind.
JSONparse(s) ==
    IF s.wrap # <<>> \/ s.kind \notin {"list", "num"} THEN Throw ELSE Ok(s)

\* z.array(z.string()).safeParse(data).success
IsStringArray(data) == data.kind = "list"

\* symmetricEncrypt({key, data}): authenticated encryption of data under key.
symmetricEncrypt(key, data) == [data EXCEPT !.wrap = <<key>> \o @]

\* symmetricDecrypt({key, data}): the plaintext when data is a ciphertext
\* made under key; throws on any other input (wrong key, changed bytes, no
\* ciphertext).
symmetricDecrypt(key, data) ==
    IF data.wrap # <<>> /\ Head(data.wrap) = key
    THEN Ok([data EXCEPT !.wrap = Tail(@)])
    ELSE Throw

\* options.storeBackupCodes.encrypt / .decrypt of the "custom" strategy: a
\* symmetric pair, decrypt throwing on what encrypt did not produce.
customEncrypt(token) == [token EXCEPT !.wrap = <<CustomLayer>> \o @]
customDecrypt(token) ==
    IF token.wrap # <<>> /\ Head(token.wrap) = CustomLayer
    THEN Ok([token EXCEPT !.wrap = Tail(@)])
    ELSE Throw

\* --------------------------------------------------------------- generator
\* The characters generateRandomString draws from, of those it can draw.
Alphabet == <<"a", "7">>
NumChars == Len(Alphabet)

\* generateRandomString(length, "a-z", "0-9", "A-Z"): some string of `length`
\* characters of the alphabet.  The strings explored are the rotations of the
\* alphabet, one per starting character.
RandomStrings(length) ==
    { [j \in 1..length |-> Alphabet[((i + j - 2) % NumChars) + 1]] : i \in 1..NumChars }

\* A split in the middle of the code: 3-3 for six characters.
FormatCode_inHalves(code) ==
    SubSeq(code, 1, Len(code) \div 2) \o <<"-">> \o SubSeq(code, Len(code) \div 2 + 1, Len(code))

\* `${code.slice(0, 5)}-${code.slice(5)}`
FormatCode(code) ==
    SubSeq(code, 1, Min(SplitAt, Len(code))) \o <<"-">> \o SubSeq(code, SplitAt + 1, Len(code))

\* The draws of generateRandomString one call of generateBackupCodesFn makes.
RandomDraws(opts) ==
    [1..OrElse(opts.amount, DefaultAmount) ->
        RandomStrings(OrElse(opts.length, DefaultLength))]

generateBackupCodesFn(opts, rnd) ==
    [i \in 1..OrElse(opts.amount, DefaultAmount) |-> FormatCode(rnd[i])]

\* A generateBackupCodes that formats what the custom generator returns.
generateBackupCodes_formatted(secret, opts, rnd) ==
    LET backupCodes == IF opts.customBackupCodesGenerate # Undefined
                       THEN [i \in 1..Len(OrElse(opts.customBackupCodesGenerate, <<>>)) |->
                               FormatCode(OrElse(opts.customBackupCodesGenerate, <<>>)[i])]
                       ELSE generateBackupCodesFn(opts, rnd)
    IN  [backupCodes |-> backupCodes,
         encryptedBackupCodes |-> symmetricEncrypt(secret, JSONstringify(backupCodes))]

\* generateBackupCodes(secret, options)
generateBackupCodes(secret, opts, rnd) ==
    LET backupCodes == IF opts.customBackupCodesGenerate # Undefined
                       THEN OrElse(opts.customBackupCodesGenerate, <<>>)
                       ELSE generateBackupCodesFn(opts, rnd)
    IN  [backupCodes |-> backupCodes,
         encryptedBackupCodes |-> symmetricEncrypt(secret, JSONstringify(backupCodes))]

\* getBackupCodes(backupCodes, key): "codes" with the array, "null" when the
\* decrypted JSON is no array of strings, "throw" when symmetricDecrypt or
\* JSON.parse throws.  TextDecoder.decode(TextEncoder.encode(s)) is s for the
\* well-formed string symmetricDecrypt returns.
getBackupCodes(backupCodes, key) ==
    LET secret == symmetricDecrypt(key, backupCodes)
        data == JSONparse(secret.val)
    IN  IF ~secret.ok \/ ~data.ok THEN [st |-> "throw", codes |-> <<>>]
        ELSE IF IsStringArray(data.val) THEN [st |-> "codes", codes |-> data.val.codes]
        ELSE [st |-> "null", codes |-> <<>>]

\* A match that ignores the code: any code is found in a batch that has codes.
Includes_anyCode(codes, code) == codes # <<>>

\* codes.includes(code)
Includes(codes, code) == \E i \in 1..Len(codes) : codes[i] = code

\* A filter that drops the first entry equal to the code and keeps the rest.
RECURSIVE FilterOut_firstOnly(_, _)
FilterOut_firstOnly(codes, code) ==
    IF codes = <<>> THEN <<>>
    ELSE IF Head(codes) # code THEN <<Head(codes)>> \o FilterOut_firstOnly(Tail(codes), code)
    ELSE Tail(codes)

\* codes.filter((code) => code !== data.code)
RECURSIVE FilterOut(_, _)
FilterOut(codes, code) ==
    IF codes = <<>> THEN <<>>
    ELSE IF Head(codes) # code THEN <<Head(codes)>> \o FilterOut(Tail(codes), code)
    ELSE FilterOut(Tail(codes), code)

\* verifyBackupCode(data, key): `updated` is optional (null when the blob is
\* no array of strings).
verifyBackupCode(data, key) ==
    LET codes == getBackupCodes(data.backupCodes, key)
    IN  IF codes.st = "throw" THEN [threw |-> TRUE, status |-> FALSE, updated |-> Undefined]
        ELSE IF codes.st = "null" THEN [threw |-> FALSE, status |-> FALSE, updated |-> Undefined]
        ELSE [threw |-> FALSE,
              status |-> Includes(codes.codes, data.code),
              updated |-> Some(FilterOut(codes.codes, data.code))]

\* A storage layer made under a key decryptBackupCodes does not use.
storeBackupCodes_otherKey(opts, backupCodes) ==
    IF opts.storeBackupCodes = "encrypted" THEN symmetricEncrypt(OtherKey, backupCodes)
    ELSE IF opts.storeBackupCodes = "custom" THEN customEncrypt(backupCodes)
    ELSE backupCodes

\* storeBackupCodes(ctx, backupCodes) of backupCode2fa
storeBackupCodes(opts, backupCodes) ==
    IF opts.storeBackupCodes = "encrypted" THEN symmetricEncrypt(Secret, backupCodes)
    ELSE IF opts.storeBackupCodes = "custom" THEN customEncrypt(backupCodes)
    ELSE backupCodes

\* decryptBackupCodes(ctx, backupCodes) of backupCode2fa
decryptBackupCodes(opts, backupCodes) ==
    IF opts.storeBackupCodes = "encrypted" THEN symmetricDecrypt(Secret, backupCodes)
    ELSE IF opts.storeBackupCodes = "custom" THEN customDecrypt(backupCodes)
    ELSE Ok(backupCodes)

\* ------------------------------------------------------------------- state
VARIABLES
    options,            \* the BackupCodeOptions backupCode2fa was built with
    twoFactorEnabled,   \* user.twoFactorEnabled of each user's session
    twoFactor,          \* the twoFactor table: backupCodes of the row of each userId
    req,                \* the verifyBackupCode invocations in flight
    resp,               \* the response a handler has just given, until delivered
    issued,             \* history: the batch the latest generateBackupCodes returned
    spent,              \* history: the codes of that batch a verification has accepted since
    previous            \* history, kept by SeqSpec: the codes of the batch that one
                        \*          replaced, when a code of it had been accepted

vars == <<options, twoFactorEnabled, twoFactor, req, resp, issued, spent, previous>>

\* findOne returns null: no row for the user.
NoRecord == Str(<<>>, "norecord", <<>>)

\* The response body: nothing, an array of codes, or a string.
NoBody == [type |-> "none", codes |-> <<>>, str |-> NoStr]
ArrayBody(codes) == [type |-> "array", codes |-> codes, str |-> NoStr]
StringBody(str) == [type |-> "string", codes |-> <<>>, str |-> str]
\* ctx.json({token, user}): the session token and the user of the response.
UserBody == [type |-> "user", codes |-> <<>>, str |-> NoStr]

\* An invocation of the verifyBackupCode handler: where it is, whose row it
\* read, the code it matched, and the locals it still uses.
Idle ==
    [pc |-> "idle", user |-> "none", code |-> <<>>,
     twoFactor |-> NoStr, updatedBackupCodes |-> NoStr]

\* A response: the endpoint, the user, the code presented (verify), the row
\* the handler read (verify and view), the error or "ok", the body, and
\* whether valid(ctx) was called; and ctx.body.disableSession as the handler
\* read it (FALSE when it did not).
NoResponse ==
    [op |-> "none", user |-> "none", code |-> <<>>, row |-> NoStr,
     outcome |-> "none", body |-> NoBody, finalized |-> FALSE, disableSession |-> FALSE]
Response(op, u, c, row, outcome, body, finalized) ==
    [op |-> op, user |-> u, code |-> c, row |-> row,
     outcome |-> outcome, body |-> body, finalized |-> finalized, disableSession |-> FALSE]
Error(op, u, c, row, error) == Response(op, u, c, row, error, NoBody, FALSE)

\* The codes a client presents: every code the generator in use can
\* produce, and one it never produces.
ForeignCode == FormatCode([j \in 1..MaxLength |-> "Z"])
PresentedCodes ==
    { FormatCode(r) : r \in RandomStrings(MaxLength) } \cup {ForeignCode}
        \cup { OrElse(options.customBackupCodesGenerate, <<>>)[i] :
                  i \in 1..Len(OrElse(options.customBackupCodesGenerate, <<>>)) }

Strategies == {"plain", "encrypted", "custom"}

InitialOptions ==
    [amount : {Some(MaxAmount)}, length : {Some(MaxLength)},
     customBackupCodesGenerate : {Undefined}, storeBackupCodes : Strategies]

\* The batch a user's row holds when the factor was enabled.
InitialDraw == [i \in 1..MaxAmount |->
                  [j \in 1..MaxLength |-> Alphabet[((i + j - 2) % NumChars) + 1]]]

EnabledRow(opts) ==
    storeBackupCodes(opts, generateBackupCodes(Secret, opts, InitialDraw).encryptedBackupCodes)

\* The users who enabled the factor: u1 did, u2 did not.
InitiallyEnabled == [u \in Users |-> u = "u1"]

Init ==
    /\ options \in InitialOptions
    /\ twoFactorEnabled = InitiallyEnabled
    /\ twoFactor = [u \in Users |->
                      IF twoFactorEnabled[u] THEN EnabledRow(options) ELSE NoRecord]
    /\ req = [p \in Procs |-> Idle]
    /\ resp = NoResponse
    /\ issued = [u \in Users |-> Undefined]
    /\ spent = [u \in Users |-> {}]
    /\ previous = [u \in Users |-> {}]

\* ----------------------------------------------------- verifyBackupCode
\* A handler that does not test what findOne returned.
Found_unchecked(row) == TRUE

\* if (!twoFactor) throw ... BACKUP_CODES_NOT_ENABLED
Found(row) == row # NoRecord

\* POST /two-factor/verify-backup-code, up to the read of the row:
\* verifyTwoFactor(ctx) (which may throw), then adapter.findOne.
VerifyFetch(p, u) ==
    /\ resp = NoResponse
    /\ req[p] = Idle
    /\ \/ /\ resp' = Error("verify", u, <<>>, NoStr, "UPSTREAM")
          /\ UNCHANGED req
       \/ /\ ~Found(twoFactor[u])
          /\ resp' = Error("verify", u, <<>>, NoRecord, "NOT_ENABLED")
          /\ UNCHANGED req
       \/ /\ Found(twoFactor[u])
          /\ req' = [req EXCEPT ![p] = [Idle EXCEPT !.pc = "fetched", !.user = u,
                                                    !.twoFactor = twoFactor[u]]]
          /\ UNCHANGED resp
    /\ UNCHANGED <<options, twoFactorEnabled, twoFactor, issued, spent, previous>>

\* What the handler computes from the row it read and ctx.body.code:
\* decryptBackupCodes, then verifyBackupCode; `error` is "none" on a match.
MatchStep(row, code) ==
    LET decryptedBackupCodes == decryptBackupCodes(options, row)
        validate == verifyBackupCode(
                        [backupCodes |-> decryptedBackupCodes.val, code |-> code], Secret)
    IN  IF ~decryptedBackupCodes.ok \/ validate.threw
        THEN [error |-> "EXCEPTION", updated |-> <<>>]
        ELSE IF ~validate.status THEN [error |-> "INVALID_CODE", updated |-> <<>>]
        ELSE [error |-> "none", updated |-> OrElse(validate.updated, <<>>)]

\* The blob the handler writes back: symmetricEncrypt of JSON.stringify(validate.updated).
UpdatedBlob(updated) == symmetricEncrypt(Secret, JSONstringify(updated))

\* A handler that empties the batch when the presented code is not found.
VerifyMatch_burning(p, c) ==
    /\ resp = NoResponse
    /\ req[p].pc = "fetched"
    /\ LET m == MatchStep(req[p].twoFactor, c)
       IN  \/ /\ m.error # "none"
              /\ resp' = Error("verify", req[p].user, c, req[p].twoFactor, m.error)
              /\ req' = [req EXCEPT ![p] = Idle]
              /\ twoFactor' = [twoFactor EXCEPT ![req[p].user] = UpdatedBlob(<<>>)]
           \/ /\ m.error = "none"
              /\ req' = [req EXCEPT ![p] = [@ EXCEPT !.pc = "matched", !.code = c,
                                                     !.twoFactor = NoStr,
                                                     !.updatedBackupCodes = UpdatedBlob(m.updated)]]
              /\ UNCHANGED <<resp, twoFactor>>
    /\ UNCHANGED <<options, twoFactorEnabled, issued, spent, previous>>

\* A match against the row as it is now, not as the request read it.
VerifyMatch_rereading(p, c) ==
    /\ resp = NoResponse
    /\ req[p].pc = "fetched"
    /\ LET m == MatchStep(twoFactor[req[p].user], c)
       IN  \/ /\ m.error # "none"
              /\ resp' = Error("verify", req[p].user, c, req[p].twoFactor, m.error)
              /\ req' = [req EXCEPT ![p] = Idle]
           \/ /\ m.error = "none"
              /\ req' = [req EXCEPT ![p] = [@ EXCEPT !.pc = "matched", !.code = c,
                                                     !.twoFactor = NoStr,
                                                     !.updatedBackupCodes = UpdatedBlob(m.updated)]]
              /\ UNCHANGED resp
    /\ UNCHANGED <<options, twoFactorEnabled, twoFactor, issued, spent, previous>>

\* Decode and match; ctx.body.code is read here for the first time.
VerifyMatch(p, c) ==
    /\ resp = NoResponse
    /\ req[p].pc = "fetched"
    /\ LET m == MatchStep(req[p].twoFactor, c)
       IN  \/ /\ m.error # "none"
              /\ resp' = Error("verify", req[p].user, c, req[p].twoFactor, m.error)
              /\ req' = [req EXCEPT ![p] = Idle]
           \/ /\ m.error = "none"
              /\ req' = [req EXCEPT ![p] = [@ EXCEPT !.pc = "matched", !.code = c,
                                                     !.twoFactor = NoStr,
                                                     !.updatedBackupCodes = UpdatedBlob(m.updated)]]
              /\ UNCHANGED resp
    /\ UNCHANGED <<options, twoFactorEnabled, twoFactor, issued, spent, previous>>

\* An update without its `where`: every row gets the blob.
UpdateRow_everyRow(table, u, backupCodes) ==
    [v \in DOMAIN table |-> IF table[v] = NoRecord THEN table[v] ELSE backupCodes]

\* An update whose `where` selects no row.
UpdateRow_noRow(table, u, backupCodes) == table

\* adapter.updateMany / adapter.update({update: {backupCodes}, where: userId}):
\* the row of the user, nothing when there is no row.
UpdateRow(table, u, backupCodes) ==
    [table EXCEPT ![u] = IF @ = NoRecord THEN @ ELSE backupCodes]

\* A handler that, when the write fails, reads the row again and starts over.
VerifyPersist_retrying(p) ==
    /\ resp = NoResponse
    /\ req[p].pc = "matched"
    /\ \/ /\ twoFactor' = UpdateRow(twoFactor, req[p].user, req[p].updatedBackupCodes)
          /\ req' = [req EXCEPT ![p] = [@ EXCEPT !.pc = "persisted", !.updatedBackupCodes = NoStr]]
       \/ /\ req' = [req EXCEPT ![p] = [Idle EXCEPT !.pc = "fetched", !.user = req[p].user,
                                                    !.twoFactor = twoFactor[req[p].user]]]
          /\ UNCHANGED twoFactor
    /\ UNCHANGED <<options, twoFactorEnabled, resp, issued, spent, previous>>

\* A write that removes the code from the batch the row holds at the time
\* of the write, not from the batch the request read.
VerifyPersist_merging(p) ==
    /\ resp = NoResponse
    /\ req[p].pc = "matched"
    /\ LET row == decryptBackupCodes(options, twoFactor[req[p].user])
           codes == IF row.ok THEN getBackupCodes(row.val, Secret).codes ELSE <<>>
       IN  twoFactor' = UpdateRow(twoFactor, req[p].user,
                                  UpdatedBlob(FilterOut(codes, req[p].code)))
    /\ req' = [req EXCEPT ![p] = [@ EXCEPT !.pc = "persisted", !.updatedBackupCodes = NoStr]]
    /\ UNCHANGED <<options, twoFactorEnabled, resp, issued, spent, previous>>

\* A handler that goes on to the response without the write having been made.
VerifyPersist_notAwaited(p) ==
    /\ resp = NoResponse
    /\ req[p].pc = "matched"
    /\ req' = [req EXCEPT ![p] = [@ EXCEPT !.pc = "persisted", !.updatedBackupCodes = NoStr]]
    /\ UNCHANGED <<options, twoFactorEnabled, twoFactor, resp, issued, spent, previous>>

\* The write of the reduced batch; the adapter may fail instead.
VerifyPersist(p) ==
    /\ resp = NoResponse
    /\ req[p].pc = "matched"
    /\ \/ /\ twoFactor' = UpdateRow(twoFactor, req[p].user, req[p].updatedBackupCodes)
          /\ req' = [req EXCEPT ![p] = [@ EXCEPT !.pc = "persisted", !.updatedBackupCodes = NoStr]]
          /\ UNCHANGED resp
       \/ /\ resp' = Error("verify", req[p].user, req[p].code, NoStr, "UPSTREAM")
          /\ req' = [req EXCEPT ![p] = Idle]
          /\ UNCHANGED twoFactor
    /\ UNCHANGED <<options, twoFactorEnabled, issued, spent, previous>>

\* The codes of the batch the latest generateBackupCodes returned to u.
Elems(codes) == { codes[i] : i \in 1..Len(codes) }
CurrentCodes(u) == Elems(OrElse(issued[u], <<>>))

\* A handler that calls valid(ctx) whatever ctx.body.disableSession is.
VerifyReport_alwaysValid(p, disableSession) ==
    /\ resp = NoResponse
    /\ req[p].pc = "persisted"
    /\ resp' = [Response("verify", req[p].user, req[p].code, NoStr, "ok", NoBody, TRUE)
                  EXCEPT !.disableSession = disableSession]
    /\ req' = [req EXCEPT ![p] = Idle]
    /\ LET u == req[p].user
           c == req[p].code
       IN  spent' = [spent EXCEPT ![u] = IF c \in CurrentCodes(u) THEN @ \cup {c} ELSE @]
    /\ UNCHANGED <<options, twoFactorEnabled, twoFactor, issued, previous>>

\* The response: valid(ctx) unless ctx.body.disableSession, else
\* ctx.json({token, user}).
VerifyReport(p, disableSession) ==
    /\ resp = NoResponse
    /\ req[p].pc = "persisted"
    /\ resp' = [Response("verify", req[p].user, req[p].code, NoStr, "ok",
                         IF disableSession THEN UserBody ELSE NoBody, ~disableSession)
                  EXCEPT !.disableSession = disableSession]
    /\ req' = [req EXCEPT ![p] = Idle]
    /\ LET u == req[p].user
           c == req[p].code
       IN  spent' = [spent EXCEPT ![u] = IF c \in CurrentCodes(u) THEN @ \cup {c} ELSE @]
    /\ UNCHANGED <<options, twoFactorEnabled, twoFactor, issued, previous>>

\* -------------------------------------------------- generateBackupCodes
\* A handler that calls checkPassword before it tests user.twoFactorEnabled.
GenerateGuard_passwordFirst(enabled, passwordOk) ==
    IF ~passwordOk THEN "UPSTREAM"
    ELSE IF ~enabled THEN "TWO_FACTOR_NOT_ENABLED"
    ELSE "none"

\* if (!user.twoFactorEnabled) throw ... TWO_FACTOR_NOT_ENABLED, then
\* await checkPassword(user.id, ctx), whose error propagates: the error the
\* handler ends with before it generates anything, "none" when it goes on.
GenerateGuard(enabled, passwordOk) ==
    IF ~enabled THEN "TWO_FACTOR_NOT_ENABLED"
    ELSE IF ~passwordOk THEN "UPSTREAM"
    ELSE "none"

\* POST /two-factor/generate-backup-codes.  The handler reads nothing from
\* the table, so its one write is the only step other requests can see.
Regenerate(u, passwordOk, rnd) ==
    /\ resp = NoResponse
    /\ LET guard == GenerateGuard(twoFactorEnabled[u], passwordOk)
           backupCodes == generateBackupCodes(Secret, options, rnd)
           storedBackupCodes == storeBackupCodes(options, backupCodes.encryptedBackupCodes)
       IN  \/ /\ guard # "none"
              /\ resp' = Error("generate", u, <<>>, NoStr, guard)
              /\ UNCHANGED <<twoFactor, issued, spent>>
           \/ /\ guard = "none"
              /\ twoFactor' = UpdateRow(twoFactor, u, storedBackupCodes)
              /\ resp' = Response("generate", u, <<>>, NoStr, "ok",
                                  ArrayBody(backupCodes.backupCodes), FALSE)
              /\ issued' = [issued EXCEPT ![u] = Some(backupCodes.backupCodes)]
              /\ spent' = [spent EXCEPT ![u] = {}]
    /\ UNCHANGED <<options, twoFactorEnabled, req>>

\* ------------------------------------------------------ viewBackupCodes
\* GET /two-factor/view-backup-codes.  Both BAD_REQUEST errors of the handler
\* carry the message "Backup codes aren't enabled": NOT_ENABLED.  The codes
\* getBackupCodes returns are only tested; the body is what
\* decryptBackupCodes returns for the stored blob.
ViewStep(u, row) ==
    LET backupCodes == getBackupCodes(row, Secret)
        decryptedBackupCodes == decryptBackupCodes(options, row)
    IN  IF row = NoRecord THEN Error("view", u, <<>>, row, "NOT_ENABLED")
        ELSE IF backupCodes.st = "throw" THEN Error("view", u, <<>>, row, "EXCEPTION")
        ELSE IF backupCodes.st = "null" THEN Error("view", u, <<>>, row, "NOT_ENABLED")
        ELSE IF ~decryptedBackupCodes.ok THEN Error("view", u, <<>>, row, "EXCEPTION")
        ELSE Response("view", u, <<>>, row, "ok", StringBody(decryptedBackupCodes.val), FALSE)

\* A view that empties the batch it shows.
Inspect_consuming(u) ==
    /\ resp = NoResponse
    /\ resp' = ViewStep(u, twoFactor[u])
    /\ twoFactor' = UpdateRow(twoFactor, u, storeBackupCodes(options, UpdatedBlob(<<>>)))
    /\ UNCHANGED <<options, twoFactorEnabled, req, issued, spent, previous>>

Inspect(u) ==
    /\ resp = NoResponse
    /\ resp' = ViewStep(u, twoFactor[u])
    /\ UNCHANGED <<options, twoFactorEnabled, twoFactor, req, issued, spent, previous>>

\* The response reaches the client.  A response is observed on its own: no
\* handler takes a step between a response and its delivery.
Deliver ==
    /\ resp # NoResponse
    /\ resp' = NoResponse
    /\ UNCHANGED <<options, twoFactorEnabled, twoFactor, req, issued, spent, previous>>

\* ---------------------------------------------------------- specifications
Next ==
    \/ \E p \in Procs, u \in Users : VerifyFetch(p, u)
    \/ \E p \in Procs, c \in PresentedCodes : VerifyMatch(p, c)
    \/ \E p \in Procs : VerifyPersist(p)
    \/ \E p \in Procs, disableSession \in BOOLEAN : VerifyReport(p, disableSession)
    \/ \E u \in Users, passwordOk \in BOOLEAN, rnd \in RandomDraws(options) :
           Regenerate(u, passwordOk, rnd) /\ UNCHANGED previous
    \/ \E u \in Users : Inspect(u)
    \/ Deliver

\* Requests run concurrently, interleaved at their reads and writes of the table.
Spec == Init /\ [][Next]_vars

\* Requests do not interleave: a handler starts when no other is in flight.
Quiet == \A p \in Procs : req[p] = Idle

\* History: what a successful generateBackupCodes replaced.
RecordPrevious(u) ==
    IF resp'.outcome = "ok"
    THEN previous' = [previous EXCEPT ![u] = IF spent[u] # {} THEN CurrentCodes(u) ELSE {}]
    ELSE UNCHANGED previous

SeqNext ==
    \/ Quiet /\ \E p \in Procs, u \in Users : VerifyFetch(p, u)
    \/ \E p \in Procs, c \in PresentedCodes : VerifyMatch(p, c)
    \/ \E p \in Procs : VerifyPersist(p)
    \/ \E p \in Procs, disableSession \in BOOLEAN : VerifyReport(p, disableSession)
    \/ Quiet /\ \E u \in Users, passwordOk \in BOOLEAN, rnd \in RandomDraws(options) :
                   Regenerate(u, passwordOk, rnd) /\ RecordPrevious(u)
    \/ Quiet /\ \E u \in Users : Inspect(u)
    \/ Deliver

SeqSpec == Init /\ [][SeqNext]_vars

\* The stored blob changes behind the plugin's back: a byte of it is
\* flipped, or it is replaced by a blob made under another key, by the
\* encoding of a JSON text that is no array of strings, or by the encoding
\* of a text that is no JSON.
TamperedBlobs(row) ==
    { [row EXCEPT !.wrap = <<CorruptLayer>> \o Tail(@)],
      storeBackupCodes(options, symmetricEncrypt(OtherKey, JSONstringify(row.codes))),
      storeBackupCodes(options, symmetricEncrypt(Secret, Str(<<>>, "num", <<>>))),
      storeBackupCodes(options, symmetricEncrypt(Secret, Str(<<>>, "text", <<>>))) }

Tamper(u) ==
    /\ resp = NoResponse
    /\ twoFactor[u] # NoRecord
    /\ twoFactor' \in { [twoFactor EXCEPT ![u] = b] : b \in TamperedBlobs(twoFactor[u]) }
    /\ UNCHANGED <<options, twoFactorEnabled, req, resp, issued, spent, previous>>

TamperNext == SeqNext \/ \E u \in Users : Tamper(u)

\* Sequential requests against a table that can be tampered with.
TamperSpec == Init /\ [][TamperNext]_vars

\* ----------------------------------------------------------- two users
\* Every user has enabled the factor and has a row.
IsoInit ==
    /\ options \in InitialOptions
    /\ twoFactorEnabled = [u \in Users |-> TRUE]
    /\ twoFactor = [u \in Users |-> EnabledRow(options)]
    /\ req = [p \in Procs |-> Idle]
    /\ resp = NoResponse
    /\ issued = [u \in Users |-> Undefined]
    /\ spent = [u \in Users |-> {}]
    /\ previous = [u \in Users |-> {}]

\* The invocation that carries the requests of a user.
ClientOf == [u \in Users |-> IF u = "u1" THEN "p1" ELSE "p2"]

\* Each user sends one request at a time; the requests of different users
\* interleave.
IsoNext ==
    \/ \E u \in Users : VerifyFetch(ClientOf[u], u)
    \/ \E p \in Procs, c \in PresentedCodes : VerifyMatch(p, c)
    \/ \E p \in Procs : VerifyPersist(p)
    \/ \E p \in Procs, disableSession \in BOOLEAN : VerifyReport(p, disableSession)
    \/ \E u \in Users, passwordOk \in BOOLEAN, rnd \in RandomDraws(options) :
           /\ req[ClientOf[u]] = Idle
           /\ Regenerate(u, passwordOk, rnd) /\ UNCHANGED previous
    \/ \E u \in Users : req[ClientOf[u]] = Idle /\ Inspect(u)
    \/ Deliver

IsoSpec == IsoInit /\ [][IsoNext]_vars

\* ------------------------------------------------------ custom generator
\* What a customBackupCodesGenerate returns: codes of its own making, one
\* more than options.amount, of one to that many characters, no separator.
CustomCodes == [i \in 1..(MaxAmount + 1) |-> [j \in 1..i |-> "x"]]

CustomOptions ==
    [amount : {Some(MaxAmount)}, length : {Some(MaxLength)},
     customBackupCodesGenerate : {Some(CustomCodes)}, storeBackupCodes : Strategies]

CustomInit ==
    /\ options \in CustomOptions
    /\ twoFactorEnabled = InitiallyEnabled
    /\ twoFactor = [u \in Users |->
                      IF twoFactorEnabled[u] THEN EnabledRow(options) ELSE NoRecord]
    /\ req = [p \in Procs |-> Idle]
    /\ resp = NoResponse
    /\ issued = [u \in Users |-> Undefined]
    /\ spent = [u \in Users |-> {}]
    /\ previous = [u \in Users |-> {}]

\* Sequential requests to a plugin built with a customBackupCodesGenerate.
CustomSpec == CustomInit /\ [][SeqNext]_vars

\* ------------------------------------------------- the functions, called
\* The options generateBackupCodesFn is called with: amount and length
\* unset or set, no custom generator.
FnOptions ==
    [amount : {Undefined} \cup { Some(n) : n \in 1..MaxAmount },
     length : {Undefined} \cup { Some(l) : l \in 1..MaxLength },
     customBackupCodesGenerate : {Undefined}, storeBackupCodes : {"plain"}]

\* No user, no row, no request: only the options and the result of a call.
FnInit ==
    /\ options \in FnOptions
    /\ twoFactorEnabled = [u \in Users |-> FALSE]
    /\ twoFactor = [u \in Users |-> NoRecord]
    /\ req = [p \in Procs |-> Idle]
    /\ resp = NoResponse
    /\ issued = [u \in Users |-> Undefined]
    /\ spent = [u \in Users |-> {}]
    /\ previous = [u \in Users |-> {}]

\* A call of generateBackupCodesFn(options); resp holds what it returns.
GenerateCall(rnd) ==
    /\ resp = NoResponse
    /\ resp' = Response("generateBackupCodesFn", "none", <<>>, NoStr, "ok",
                        ArrayBody(generateBackupCodesFn(options, rnd)), FALSE)
    /\ UNCHANGED <<options, twoFactorEnabled, twoFactor, req, issued, spent, previous>>

\* The codes of the batches verifyBackupCode is called with: they differ in
\* the case of a letter and in a trailing blank.
FnCodes == { <<"a", "b">>, <<"A", "b">>, <<"a", "b", " ">> }

RECURSIVE Batches(_)
Batches(n) ==
    IF n = 0 THEN { <<>> }
    ELSE Batches(n - 1) \cup { Append(b, c) : b \in { x \in Batches(n - 1) : Len(x) = n - 1 },
                                              c \in FnCodes }

\* The batches: up to one code more than options.amount, repeated codes included.
FnBatches == Batches(MaxAmount + 1)

\* A call of verifyBackupCode({backupCodes, code}, key) with the encrypted
\* JSON of a batch; resp holds the arguments and what the call returns:
\* status as the outcome, updated as the body.
VerifyCall(batch, code) ==
    /\ resp = NoResponse
    /\ LET backupCodes == symmetricEncrypt(Secret, JSONstringify(batch))
           validate == verifyBackupCode([backupCodes |-> backupCodes, code |-> code], Secret)
       IN  resp' = Response("verifyBackupCode", "none", code, backupCodes,
                            IF validate.threw THEN "EXCEPTION"
                            ELSE IF validate.status THEN "true" ELSE "false",
                            IF validate.updated = Undefined THEN NoBody
                            ELSE ArrayBody(OrElse(validate.updated, <<>>)), FALSE)
    /\ UNCHANGED <<options, twoFactorEnabled, twoFactor, req, issued, spent, previous>>

FnNext ==
    \/ \E rnd \in RandomDraws(options) : GenerateCall(rnd)
    \/ \E batch \in FnBatches, code \in FnCodes : VerifyCall(batch, code)
    \/ Deliver

FnSpec == FnInit /\ [][FnNext]_vars

\* ------------------------------------------------------------------ claims
\* The decode path of the verifyBackupCode handler: decryptBackupCodes
\* (storage level), then getBackupCodes (value level).
VerifyDecode(blob) ==
    LET d == decryptBackupCodes(options, blob)
    IN  IF ~d.ok THEN [st |-> "throw", codes |-> <<>>] ELSE getBackupCodes(d.val, Secret)

Decoded(codes) == [st |-> "codes", codes |-> codes]

Distinct(codes) == Cardinality(Elems(codes)) = Len(codes)

\* Request p takes its decode-and-match step.
Matching(p) == req[p].pc = "fetched" /\ req'[p].pc # "fetched"
\* The code that step read from the request body.
MatchedCode(p) == IF req'[p].pc = "matched" THEN req'[p].code ELSE resp'.code
\* That step ended the request with the error `error`.
MatchFails(p, error) ==
    /\ req'[p] = Idle
    /\ resp'.op = "verify" /\ resp'.outcome = error /\ ~resp'.finalized

\* The codes of the issued batch that no verification has accepted.
Remaining(u) == SelectSeq(OrElse(issued[u], <<>>), LAMBDA c : c \notin spent[u])

\* C1: without interleaving, and for each strategy: the verification that
\* follows the storing of a batch of pairwise-distinct codes and presents
\* one of them succeeds; after a successful verification of code c the
\* stored blob decodes to the batch without the redeemed codes (N-1 codes
\* after the first), none equal to c; and a later verification presenting
\* c ends with INVALID_CODE.
C1_FirstUseSucceeds ==
    \A p \in Procs :
      ( /\ Matching(p)
        /\ issued[req[p].user] # Undefined
        /\ Distinct(OrElse(issued[req[p].user], <<>>))
        /\ spent[req[p].user] = {}
        /\ MatchedCode(p) \in CurrentCodes(req[p].user) )
      => req'[p].pc = "matched"

C1_StoredIsRemainder ==
    ( /\ resp.op = "verify" /\ resp.outcome = "ok"
      /\ issued[resp.user] # Undefined
      /\ Distinct(OrElse(issued[resp.user], <<>>))
      /\ resp.code \in spent[resp.user] )
    => ( /\ VerifyDecode(twoFactor[resp.user]) = Decoded(Remaining(resp.user))
         /\ Len(Remaining(resp.user)) =
                Len(OrElse(issued[resp.user], <<>>)) - Cardinality(spent[resp.user])
         /\ resp.code \notin Elems(Remaining(resp.user)) )

C1_SecondUseRejected ==
    \A p \in Procs :
      ( /\ Matching(p)
        /\ Distinct(OrElse(issued[req[p].user], <<>>))
        /\ MatchedCode(p) \in spent[req[p].user] )
      => MatchFails(p, "INVALID_CODE")

C1_SingleConsumption ==
    []C1_StoredIsRemainder /\ [][C1_FirstUseSucceeds /\ C1_SecondUseRejected]_vars

\* C2: whatever the interleaving of verifyBackupCode requests, a code of
\* the issued batch is accepted by at most one request before the next
\* generateBackupCodes.
C2_AcceptedAtMostOnce ==
    [][ \A p \in Procs :
          (req[p].pc = "persisted" /\ req'[p] = Idle /\ resp'.outcome = "ok")
          => req[p].code \notin spent[req[p].user] ]_vars

\* C3: the blob a successful verification writes back carries the
\* value-level and then the storage-level layer, as the blob
\* generateBackupCodes writes does; so every stored blob decodes through
\* the verify path to a list of codes.
C3_StoredDecodes ==
    \A u \in Users : twoFactor[u] # NoRecord => VerifyDecode(twoFactor[u]).st = "codes"

C3_PersistWrapsBoth ==
    \A p \in Procs :
      (req[p].pc = "matched" /\ req'[p].pc = "persisted")
      => twoFactor'[req[p].user] = storeBackupCodes(options, req[p].updatedBackupCodes)

C3_PersistBothLayers == []C3_StoredDecodes /\ [][C3_PersistWrapsBoth]_vars

\* C4: when the row a verifyBackupCode request read does not decode
\* (a decryption fails, the text is no JSON, or no array of strings), the
\* request ends with NOT_ENABLED.
C4_DecodeFailureNotEnabled ==
    [][ \A p \in Procs :
          (Matching(p) /\ VerifyDecode(req[p].twoFactor).st # "codes")
          => MatchFails(p, "NOT_ENABLED") ]_vars

\* C5: a verifyBackupCode request for a user without a twoFactor row, once
\* past verifyTwoFactor, ends with NOT_ENABLED at the fetch: no request
\* goes on to decode, the table is not written, valid(ctx) is not called.
C5_Absence ==
    [][ ( /\ resp = NoResponse /\ resp' # NoResponse
          /\ resp'.op = "verify"
          /\ twoFactor[resp'.user] = NoRecord
          /\ resp'.outcome # "UPSTREAM" )
        => ( /\ resp'.outcome = "NOT_ENABLED"
             /\ ~resp'.finalized
             /\ twoFactor' = twoFactor
             /\ req' = req ) ]_vars

C5_Witness ==
    /\ resp.op = "verify" /\ resp.outcome = "NOT_ENABLED"
    /\ twoFactor[resp.user] = NoRecord

\* C6: when the row a verifyBackupCode request read decodes to a batch and
\* the presented code equals no code of it, the request ends with
\* INVALID_CODE and nothing else.
C6_InvalidCode ==
    [][ \A p \in Procs :
          ( /\ Matching(p)
            /\ VerifyDecode(req[p].twoFactor).st = "codes"
            /\ MatchedCode(p) \notin Elems(VerifyDecode(req[p].twoFactor).codes) )
          => MatchFails(p, "INVALID_CODE") ]_vars

C6_Witness ==
    /\ resp.op = "verify" /\ resp.outcome = "INVALID_CODE"
    /\ VerifyDecode(resp.row).st = "codes"
    /\ resp.code \notin Elems(VerifyDecode(resp.row).codes)

\* C7: once a code of batch A was redeemed and generateBackupCodes returned
\* batch B, the stored blob decodes to exactly B, and the verification that
\* follows, presenting a code of A that is not in B, ends with INVALID_CODE.
C7_StoredIsNewBatch ==
    (resp.op = "generate" /\ resp.outcome = "ok" /\ previous[resp.user] # {})
    => ( /\ issued[resp.user] = Some(resp.body.codes)
         /\ VerifyDecode(twoFactor[resp.user]) = Decoded(resp.body.codes) )

C7_OldCodeRejected ==
    \A p \in Procs :
      ( /\ Matching(p)
        /\ spent[req[p].user] = {}
        /\ MatchedCode(p) \in previous[req[p].user] \ CurrentCodes(req[p].user) )
      => MatchFails(p, "INVALID_CODE")

C7_RegenerationDiscards == []C7_StoredIsNewBatch /\ [][C7_OldCodeRejected]_vars

C7_Witness ==
    /\ resp.op = "verify" /\ resp.outcome = "INVALID_CODE"
    /\ spent[resp.user] = {}
    /\ resp.code \in previous[resp.user] \ CurrentCodes(resp.user)

\* C8: for each strategy, the blob generateBackupCodes stores (value-level
\* encryption, then storeBackupCodes) decodes through the verify path to the
\* codes returned to the caller, in the same order.
C8_RoundTrip ==
    (resp.op = "generate" /\ resp.outcome = "ok")
    => VerifyDecode(twoFactor[resp.user]) = Decoded(resp.body.codes)

C8_Witness ==
    /\ resp.op = "generate" /\ resp.outcome = "ok"
    /\ options.storeBackupCodes = "encrypted"
    /\ Len(resp.body.codes) = MaxAmount
    /\ resp.body.codes[1] # resp.body.codes[MaxAmount]

\* C9: for each strategy and each stored blob the verify path decodes,
\* viewBackupCodes succeeds and returns the array of plaintext codes that
\* path recovers.
C9_InspectReturnsBatch ==
    (resp.op = "view" /\ VerifyDecode(resp.row).st = "codes")
    => ( /\ resp.outcome = "ok"
         /\ resp.body = ArrayBody(VerifyDecode(resp.row).codes) )

\* C10: viewBackupCodes ends with NOT_ENABLED, and nothing else, when the
\* user has no row and when the stored blob does not decode.
C10_InspectNotEnabled ==
    (resp.op = "view" /\ (resp.row = NoRecord \/ VerifyDecode(resp.row).st # "codes"))
    => resp.outcome = "NOT_ENABLED"

\* C11: a generateBackupCodes request of a user whose twoFactorEnabled is
\* false ends with TWO_FACTOR_NOT_ENABLED whatever checkPassword would
\* answer; one of an enabled user that fails ends with the error of
\* checkPassword; a failing request returns no codes and leaves the table
\* and the issued batch as they were.
C11_RegenerateFailure ==
    [][ (resp = NoResponse /\ resp'.op = "generate")
        => ( /\ ~twoFactorEnabled[resp'.user] => resp'.outcome = "TWO_FACTOR_NOT_ENABLED"
             /\ resp'.outcome # "ok"
                  => ( /\ twoFactorEnabled[resp'.user] => resp'.outcome = "UPSTREAM"
                       /\ resp'.body = NoBody
                       /\ twoFactor' = twoFactor
                       /\ issued' = issued ) ) ]_vars

C11_Witness ==
    /\ resp.op = "generate" /\ resp.outcome = "TWO_FACTOR_NOT_ENABLED"
    /\ ~twoFactorEnabled[resp.user]
    /\ resp.body = NoBody

\* C12: the codes generateBackupCodesFn produces for one batch are pairwise
\* distinct.
C12_Uniqueness ==
    ( /\ resp.op = "generate" /\ resp.outcome = "ok"
      /\ options.customBackupCodesGenerate = Undefined )
    => Distinct(resp.body.codes)

\* The characters of a code other than the separator.
IsAlphanumeric(ch) == ch # "-" /\ \E k \in 1..NumChars : Alphabet[k] = ch

\* What generateBackupCodesFn returned: `amount` codes (10 when unset) of
\* length+1 characters (length 10 when unset), "-" at position `at`+1 and
\* characters of the alphabet everywhere else.
FormattedBatch(codes, at) ==
    LET amount == OrElse(options.amount, 10)
        length == OrElse(options.length, 10)
    IN  /\ Len(codes) = amount
        /\ \A i \in 1..Len(codes) :
              /\ Len(codes[i]) = length + 1
              /\ at + 1 \in 1..Len(codes[i])
              /\ \A j \in 1..Len(codes[i]) :
                    IF j = at + 1 THEN codes[i][j] = "-" ELSE IsAlphanumeric(codes[i][j])

\* C13 as stated: generateBackupCodesFn returns `amount` codes (10 when
\* unset), each of `length` characters of the alphabet (10 when unset) with
\* one "-" after the fifth of them, whatever the length: length+1
\* characters in all.
C13_Format ==
    resp.op = "generateBackupCodesFn" => FormattedBatch(resp.body.codes, 5)

\* C13, amended: generateBackupCodesFn returns `amount` codes (10 when
\* unset), each of `length` characters of the alphabet (10 when unset) with
\* one "-" after the fifth of them, and at the end when the length is below
\* five: length+1 characters in all, 5-5 for length 10, 5-1 for length 6.
C13_FormatSplit ==
    resp.op = "generateBackupCodesFn"
    => FormattedBatch(resp.body.codes, Min(5, OrElse(options.length, 10)))

C13_Witness ==
    /\ resp.op = "generateBackupCodesFn"
    /\ options.amount = Undefined /\ options.length = Some(3)
    /\ Len(resp.body.codes) = 10
    /\ resp.body.codes[1] = <<"a", "7", "a", "-">>

\* C14: a viewBackupCodes request, whatever its outcome, leaves the row of
\* every user and every user's twoFactorEnabled as they were.
C14_InspectNoMutation ==
    [][ (resp = NoResponse /\ resp'.op = "view")
        => (twoFactor' = twoFactor /\ twoFactorEnabled' = twoFactorEnabled) ]_vars

C14_Witness ==
    /\ resp.op = "view" /\ resp.outcome = "ok"
    /\ twoFactor[resp.user] = resp.row

\* C15: valid(ctx) is called only by a verifyBackupCode request that ends
\* with success, whose presented code was found in the batch it read and
\* whose write of the reduced blob has been made; a request that ends with
\* an error has not called it.
C15_FinalizedBySuccess ==
    (resp.op = "verify" /\ resp.outcome # "ok") => ~resp.finalized

C15_FinalizerLast ==
    /\ (resp = NoResponse /\ resp'.finalized)
         => \E p \in Procs :
               /\ req[p].pc = "persisted" /\ req'[p] = Idle
               /\ resp'.op = "verify" /\ resp'.outcome = "ok"
               /\ resp'.user = req[p].user /\ resp'.code = req[p].code
    /\ \A p \in Procs :
         /\ (req[p].pc # "persisted" /\ req'[p].pc = "persisted")
              => ( /\ req[p].pc = "matched"
                   /\ req'[p].code = req[p].code
                   /\ twoFactor'[req[p].user] = req[p].updatedBackupCodes )
         /\ (req[p].pc # "matched" /\ req'[p].pc = "matched")
              => ( /\ req[p].pc = "fetched"
                   /\ VerifyDecode(req[p].twoFactor).st = "codes"
                   /\ req'[p].code \in Elems(VerifyDecode(req[p].twoFactor).codes) )

C15_HandOffOrdering == []C15_FinalizedBySuccess /\ [][C15_FinalizerLast]_vars

C15_Witness ==
    /\ resp.op = "verify" /\ resp.outcome = "ok" /\ resp.finalized
    /\ resp.code \in spent[resp.user]

\* C16: with a customBackupCodesGenerate, generateBackupCodes returns the
\* sequence that function returned, as it is, and the stored blob decodes
\* to that sequence; the verification that follows, presenting any code of
\* it, finds the code.
C16_ReturnsCustomCodes ==
    (resp.op = "generate" /\ resp.outcome = "ok" /\ options.customBackupCodesGenerate # Undefined)
    => ( /\ Some(resp.body.codes) = options.customBackupCodesGenerate
         /\ VerifyDecode(twoFactor[resp.user]) = Decoded(resp.body.codes) )

C16_CustomCodeAccepted ==
    \A p \in Procs :
      ( /\ Matching(p)
        /\ options.customBackupCodesGenerate # Undefined
        /\ issued[req[p].user] = options.customBackupCodesGenerate
        /\ spent[req[p].user] = {}
        /\ MatchedCode(p) \in CurrentCodes(req[p].user) )
      => req'[p].pc = "matched"

C16_CustomGenerator == []C16_ReturnsCustomCodes /\ [][C16_CustomCodeAccepted]_vars

C16_Witness ==
    /\ resp.op = "verify" /\ resp.outcome = "ok"
    /\ issued[resp.user] = Some(CustomCodes)
    /\ resp.code = CustomCodes[MaxAmount + 1]
    /\ spent[resp.user] = {resp.code}

\* C17: the write of a verifyBackupCode request replaces the row with the
\* remainder of the batch that request read, whatever the row holds by
\* then, and a verification finds a code the row it read holds also when
\* that code has been accepted before.  So two concurrent requests that
\* read the same batch and present different codes of it both succeed, the
\* later write brings back the code the other redeemed, and a later
\* request is accepted with that code again (C17_Witness).
C17_LostUpdate ==
    [][ \A p \in Procs :
          /\ (req[p].pc = "matched" /\ req'[p].pc = "persisted")
               => twoFactor'[req[p].user] = req[p].updatedBackupCodes
          /\ ( /\ Matching(p)
               /\ VerifyDecode(req[p].twoFactor).st = "codes"
               /\ MatchedCode(p) \in Elems(VerifyDecode(req[p].twoFactor).codes)
               /\ MatchedCode(p) \in spent[req[p].user] )
               => req'[p].pc = "matched" ]_vars

\* Two different codes of a batch of distinct codes have been accepted, no
\* other request is in flight, the row still holds one of the two, and a
\* request presenting it has found it.
C17_Witness ==
    \E p \in Procs :
      /\ \A q \in Procs \ {p} : req[q] = Idle
      /\ req[p].pc = "matched"
      /\ Distinct(OrElse(issued[req[p].user], <<>>))
      /\ Cardinality(spent[req[p].user]) = 2
      /\ req[p].code \in spent[req[p].user]
      /\ VerifyDecode(twoFactor[req[p].user]).st = "codes"
      /\ req[p].code \in Elems(VerifyDecode(twoFactor[req[p].user]).codes)

\* C18: a generateBackupCodes request leaves the verifications in flight
\* as they are, and a verification computes the blob it will write from the
\* row it read, whatever the row holds by then.  So a verification that
\* read the row before a generateBackupCodes and writes after it replaces
\* the new batch: a code of the issued batch that no verification has
\* accepted is gone from the row (C18_Witness).
C18_StaleRemainder ==
    [][ /\ (resp = NoResponse /\ resp'.op = "generate") => req' = req
        /\ \A p \in Procs :
             (req[p].pc = "fetched" /\ req'[p].pc = "matched")
             => req'[p].updatedBackupCodes =
                    UpdatedBlob(FilterOut(VerifyDecode(req[p].twoFactor).codes, req'[p].code)) ]_vars

\* No request in flight, no code of the issued batch accepted, the row
\* decodes, and a code of the issued batch is not in it.
C18_Witness ==
    \E u \in Users :
      /\ Quiet
      /\ issued[u] # Undefined
      /\ spent[u] = {}
      /\ VerifyDecode(twoFactor[u]).st = "codes"
      /\ \E c \in CurrentCodes(u) : c \notin Elems(VerifyDecode(twoFactor[u]).codes)

\* C19: for every batch, repeated entries included, and every code,
\* verifyBackupCode returns status true exactly when an entry of the batch
\* equals the code, character for character, and `updated` is the batch
\* without the entries equal to the code, the others in their order: the
\* batch itself when none is equal.
C19_MatchAndRemainder ==
    resp.op = "verifyBackupCode"
    => LET batch == resp.row.codes
           matches == { i \in 1..Len(batch) : batch[i] = resp.code }
       IN  /\ resp.outcome = (IF matches = {} THEN "false" ELSE "true")
           /\ resp.body = ArrayBody(SelectSeq(batch, LAMBDA entry : entry # resp.code))
           /\ Len(resp.body.codes) = Len(batch) - Cardinality(matches)
           /\ matches = {} => resp.body.codes = batch

\* The batch holds the code twice and a code that differs from it in the
\* case of a letter only.
C19_Witness ==
    /\ resp.op = "verifyBackupCode" /\ resp.outcome = "true"
    /\ resp.code = <<"a", "b">>
    /\ resp.row.codes = << <<"a", "b">>, <<"A", "b">>, <<"a", "b">> >>
    /\ resp.body.codes = << <<"A", "b">> >>

\* The steps of a verifyBackupCode request, in their order: a request moves
\* forward by one, or ends.
Forward ==
    { <<"idle", "fetched">>, <<"fetched", "matched">>, <<"matched", "persisted">>,
      <<"fetched", "idle">>, <<"matched", "idle">>, <<"persisted", "idle">> }

\* C20: a verifyBackupCode request goes from fetch to decode-and-match to
\* persist to report and never back; it reads the row once, at the fetch;
\* it writes the row at most once, at the persist step that follows a
\* match, and that write puts the whole blob it computed in the place of the
\* whole row; no other step of a request changes the table.
C20_Linear ==
    [][ /\ \A p \in Procs :
             /\ req'[p].pc # req[p].pc => <<req[p].pc, req'[p].pc>> \in Forward
             /\ req'[p].pc = req[p].pc => req'[p] = req[p]
             /\ (req'[p].twoFactor # req[p].twoFactor /\ req'[p].twoFactor # NoStr)
                  => ( /\ req[p].pc = "idle" /\ req'[p].pc = "fetched"
                       /\ req'[p].twoFactor = twoFactor[req'[p].user] )
        /\ twoFactor' # twoFactor
             => \/ resp = NoResponse /\ resp'.op = "generate"
                \/ \E p \in Procs :
                      /\ req[p].pc = "matched" /\ req'[p].pc = "persisted"
                      /\ twoFactor' = [twoFactor EXCEPT ![req[p].user] = req[p].updatedBackupCodes] ]_vars

\* A request has gone through all its steps: the row is the blob it computed
\* from the issued batch.
C20_Witness ==
    /\ resp.op = "verify" /\ resp.outcome = "ok"
    /\ Quiet
    /\ issued[resp.user] # Undefined
    /\ resp.code \in CurrentCodes(resp.user)
    /\ twoFactor[resp.user] =
           UpdatedBlob(FilterOut(OrElse(issued[resp.user], <<>>), resp.code))

\* C21: a verifyBackupCode request that succeeds has called valid(ctx)
\* exactly when ctx.body.disableSession is not set, and with it set answers
\* with the token and the user instead; either way the response comes after
\* the write, and (requests not interleaving) a verification of the row no
\* longer finds the code.
C21_FinalizedUnlessDisabled ==
    (resp.op = "verify" /\ resp.outcome = "ok")
    => ( /\ resp.finalized <=> ~resp.disableSession
         /\ resp.disableSession => resp.body = UserBody
         /\ resp.finalized => resp.body = NoBody
         /\ resp.code \notin Elems(VerifyDecode(twoFactor[resp.user]).codes) )

C21_ReportAfterWrite ==
    (resp = NoResponse /\ resp'.op = "verify" /\ resp'.outcome = "ok")
    => \E p \in Procs : req[p].pc = "persisted" /\ req'[p] = Idle

C21_SkipSession == []C21_FinalizedUnlessDisabled /\ [][C21_ReportAfterWrite]_vars

C21_Witness ==
    /\ resp.op = "verify" /\ resp.outcome = "ok"
    /\ resp.disableSession /\ ~resp.finalized /\ resp.body = UserBody
    /\ resp.code \in spent[resp.user]

\* C22: with the "encrypted" strategy, the row generateBackupCodes stores
\* carries two layers of encryption, and the key of the outer, storage-level
\* layer is not the key of the inner, value-level layer.
C22_KeySeparation ==
    ( /\ resp.op = "generate" /\ resp.outcome = "ok"
      /\ options.storeBackupCodes = "encrypted" )
    => ( /\ Len(twoFactor[resp.user].wrap) = 2
         /\ twoFactor[resp.user].wrap[1] # twoFactor[resp.user].wrap[2] )

\* C23: a verifyBackupCode request that ends with an error has made no
\* write: the step that ends it leaves the table as it is and the request
\* had not passed its persist step; requests not interleaving, the row of
\* the user is still the row the request read.
C23_ErrorLeavesRow ==
    (resp.op = "verify" /\ resp.outcome \in {"NOT_ENABLED", "INVALID_CODE", "EXCEPTION"})
    => twoFactor[resp.user] = resp.row

C23_ErrorWritesNothing ==
    (resp = NoResponse /\ resp'.op = "verify" /\ resp'.outcome # "ok")
    => ( /\ twoFactor' = twoFactor
         /\ \A p \in Procs :
               req'[p] # req[p] => (req[p].pc \in {"fetched", "matched"} /\ req'[p] = Idle) )

C23_FailedVerify == []C23_ErrorLeavesRow /\ [][C23_ErrorWritesNothing]_vars

C23_Witness ==
    /\ resp.op = "verify" /\ resp.outcome = "EXCEPTION"
    /\ resp.row # NoStr
    /\ twoFactor[resp.user] = resp.row

\* C24: a request of user u reads the row of u and no step changes the row
\* of a user other than the one the request is for; so, with the requests
\* of the other users interleaving, a user's first verification after a
\* generateBackupCodes, presenting a code of the batch, finds it (and with
\* the plain strategy so does every later one presenting a code not yet
\* accepted).
C24_OwnRowOnly ==
    /\ \A v \in Users :
         twoFactor'[v] # twoFactor[v]
         => \/ resp = NoResponse /\ resp'.op = "generate" /\ resp'.user = v
            \/ \E p \in Procs :
                  req[p].user = v /\ req[p].pc = "matched" /\ req'[p].pc = "persisted"
    /\ \A p \in Procs :
         (req[p].pc = "idle" /\ req'[p].pc = "fetched")
         => req'[p].twoFactor = twoFactor[req'[p].user]

C24_StillRedeemable ==
    \A p \in Procs :
      ( /\ Matching(p)
        /\ issued[req[p].user] # Undefined
        /\ spent[req[p].user] = {} \/ options.storeBackupCodes = "plain"
        /\ MatchedCode(p) \in CurrentCodes(req[p].user) \ spent[req[p].user] )
      => req'[p].pc = "matched"

C24_Isolation == [][C24_OwnRowOnly /\ C24_StillRedeemable]_vars

\* u1 has had a code accepted, u2 holds another batch, and a code of it has
\* just been accepted.
C24_Witness ==
    /\ resp.op = "verify" /\ resp.outcome = "ok" /\ resp.user = "u2"
    /\ issued["u1"] # Undefined /\ issued["u2"] # Undefined
    /\ issued["u1"] # issued["u2"]
    /\ spent["u1"] # {}
    /\ resp.code \in spent["u2"]

\* C25: without interleaving, once k different codes of an issued batch of
\* N distinct codes have been accepted the row decodes to N-k codes; once
\* all N have been, the row is still there and decodes to no code, and a
\* verification ends with INVALID_CODE, until generateBackupCodes stores a
\* new batch.
C25_StoredCount ==
    \A u \in Users :
      ( /\ Quiet
        /\ issued[u] # Undefined
        /\ Distinct(OrElse(issued[u], <<>>)) )
      => ( /\ twoFactor[u] # NoRecord
           /\ VerifyDecode(twoFactor[u]).st = "codes"
           /\ Len(VerifyDecode(twoFactor[u]).codes) =
                  Len(OrElse(issued[u], <<>>)) - Cardinality(spent[u]) )

C25_ExhaustedRejects ==
    \A p \in Procs :
      ( /\ Matching(p)
        /\ issued[req[p].user] # Undefined
        /\ Distinct(OrElse(issued[req[p].user], <<>>))
        /\ spent[req[p].user] = CurrentCodes(req[p].user) )
      => MatchFails(p, "INVALID_CODE")

C25_Exhaustion == []C25_StoredCount /\ [][C25_ExhaustedRejects]_vars

====
